---- MODULE Spec2Model ----
(***************************************************************************)
(* Lens Execution Environment: the applyLenses pipeline of executor.ts and *)
(* the worker protocol of executeLensInWorker / lens-worker.js.            *)
(*                                                                         *)
(* One behaviour is one call applyLenses(epi, ips, completeLenses).  The   *)
(* call runs from suspension point to suspension point; the worker of each *)
(* lens is an independent event source (message, error, exit) and each     *)
(* invocation owns a deadline timer.                                       *)
(***************************************************************************)
EXTENDS Integers, Sequences, FiniteSets, TLC

\* ---------------------------------------------------------------- bounds
MaxLenses == 2
MaxSections == 2
MaxAtts == 2

\* ------------------------------------------------------------- constants
LensExecutionTimeoutDefault == 1000

None == "none"

\* ---------------------------------------------------------------- markup
\* A markup string is a sequence of blocks.  mk: the block is a
\* <div xmlns="http://www.w3.org/1999/xhtml">; raw: the text of the block is
\* not in the serialisation JSDOM's outerHTML produces; cls: the class a lens
\* put on the block; c: the content; h: the text of its first heading.
Blk(c, mk, raw, h) == [c |-> c, mk |-> mk, raw |-> raw, cls |-> "", h |-> h]

\* div.outerHTML: the canonical serialisation of a parsed element
OuterHTML(b) == [b EXCEPT !.raw = FALSE]

\* ------------------------------------------------------------- sections
\* A leaflet section: title, code, text.div, child sections and entries.
\* isNull is a JSON null in the place of a section object.  An entry carries
\* the text.div and the sections of its resource.
Entry(div, sub) == [div |-> div, sub |-> sub]
SecWithEntry(title, code, div, sub, entry) ==
    [isNull |-> FALSE, title |-> title, code |-> code, div |-> div, sub |-> sub,
     entry |-> entry]
Sec(title, code, div, sub) == SecWithEntry(title, code, div, sub, <<>>)
NullSec == [isNull |-> TRUE, title |-> None, code |-> [code |-> None, display |-> None],
            div |-> <<>>, sub |-> <<>>, entry |-> <<>>]

\* A top-level section of the Composition: hasSub is "section is an array".
Top(hasSub, sub) == [hasSub |-> hasSub, sub |-> sub]

Throws == [ok |-> FALSE, html |-> <<>>]
Html(h) == [ok |-> TRUE, html |-> h]

RECURSIVE getLeafletHTMLString(_)
RECURSIVE EntriesHTMLString(_)

\* the loop over section.entry, lines 411-421: the text.div of each entry's
\* resource, then the markup of the resource's sections
EntriesHTMLString(entry) ==
    IF entry = <<>> THEN Html(<<>>)
    ELSE LET own == getLeafletHTMLString(Head(entry).sub)
             rest == EntriesHTMLString(Tail(entry))
         IN IF own.ok /\ rest.ok
            THEN Html(Head(entry).div \o own.html \o rest.html)
            ELSE Throws

\* getLeafletHTMLString: depth-first concatenation of text.div, child
\* sections and entries; reading a property of a null element throws a
\* TypeError.
getLeafletHTMLString(list) ==
    IF list = <<>> THEN Html(<<>>)
    ELSE LET s == Head(list) IN
         IF s.isNull THEN Throws
         ELSE LET kids == getLeafletHTMLString(s.sub)
                  entries == EntriesHTMLString(s.entry)
                  rest == getLeafletHTMLString(Tail(list))
              IN IF kids.ok /\ entries.ok /\ rest.ok
                 THEN Html(s.div \o kids.html \o entries.html \o rest.html)
                 ELSE Throws

\* document.querySelectorAll('div[xmlns=...]'): the marked blocks, in order
RECURSIVE MarkedDivs(_)
MarkedDivs(html) ==
    IF html = <<>> THEN <<>>
    ELSE IF Head(html).mk THEN <<Head(html)>> \o MarkedDivs(Tail(html))
         ELSE MarkedDivs(Tail(html))

\* A classification code (CodeableConcept): its code and display
Code(code, display) == [code |-> code, display |-> display]
NoCode == Code(None, None)

SynthTitle(i) == "Section " \o ToString(i)
SynthCode(i, title) == Code("section-" \o ToString(i), title)

\* leafletSectionList[i]?.title : undefined past the end, and for a section
\* that has no title
PrevTitle(list, i) == IF i <= Len(list) /\ ~list[i].isNull THEN list[i].title ELSE None
PrevCode(list, i) == IF i <= Len(list) /\ ~list[i].isNull THEN list[i].code ELSE NoCode

\* getLeafletSectionListFromHTMLString: one section per marked div, title and
\* code taken positionally from the previous list, else synthesised
getLeafletSectionListFromHTMLString(html, leafletSectionList) ==
    LET divs == MarkedDivs(html)
        titleOf(i) == IF PrevTitle(leafletSectionList, i) # None
                      THEN PrevTitle(leafletSectionList, i)
                      ELSE IF divs[i].h # None THEN divs[i].h ELSE SynthTitle(i)
        codeOf(i) == IF PrevCode(leafletSectionList, i) # NoCode
                     THEN PrevCode(leafletSectionList, i)
                     ELSE SynthCode(i, titleOf(i))
    IN [i \in 1..Len(divs) |-> Sec(titleOf(i), codeOf(i), <<OuterHTML(divs[i])>>, <<>>)]

\* ------------------------------------------------------------- document
\* The ePI: rtype is its resourceType, entryComp says that a Bundle has an
\* entry whose resource is a Composition.  The other fields are those of the
\* Composition: hasSec is "section is an array", sec the top-level sections,
\* cat the code of category[0].coding[0], lang the language, ext the
\* extensions.
Epi(rtype, entryComp, hasSec, sec, lang, ext) ==
    [rtype |-> rtype, entryComp |-> entryComp, hasSec |-> hasSec, sec |-> sec,
     cat |-> "R", lang |-> lang, ext |-> ext]

\* findResourceByType(epi, "Composition") is not null
HasComposition(epi) ==
    \/ epi.rtype = "Composition"
    \/ epi.rtype = "Bundle" /\ epi.entryComp

\* composition.section.findIndex(s => s.section && Array.isArray(s.section)),
\* 0 when there is none
RECURSIVE FirstWithSub(_, _)
FirstWithSub(sec, i) ==
    IF i > Len(sec) THEN 0
    ELSE IF sec[i].hasSub THEN i ELSE FirstWithSub(sec, i + 1)
leafletSectionIndex(epi) == FirstWithSub(epi.sec, 1)

NoList == [found |-> FALSE, list |-> <<>>]
List(l) == [found |-> TRUE, list |-> l]

\* getLeaflet: the children of the first top-level section that has an array
\* of children; null when there is no Composition, no section array, or no
\* such section (composition.section[0]?.section is then not an array; the
\* documents of the model have no child value that is neither)
getLeaflet(epi) ==
    IF ~HasComposition(epi) THEN NoList
    ELSE IF ~epi.hasSec THEN NoList
    ELSE IF leafletSectionIndex(epi) = 0 THEN NoList
    ELSE List(epi.sec[leafletSectionIndex(epi)].sub)

\* writeLeaflet that always writes into the first top-level section
writeLeaflet_FirstSection(epi, l) ==
    IF ~HasComposition(epi) THEN epi
    ELSE IF ~epi.hasSec THEN epi
    ELSE IF Len(epi.sec) >= 1 THEN [epi EXCEPT !.sec[1] = Top(l.found, l.list)]
    ELSE epi

\* writeLeaflet without the fallback to the first top-level section
writeLeaflet_NoFallback(epi, l) ==
    IF ~HasComposition(epi) THEN epi
    ELSE IF ~epi.hasSec THEN epi
    ELSE IF leafletSectionIndex(epi) = 0 THEN epi
    ELSE [epi EXCEPT !.sec[leafletSectionIndex(epi)] = Top(l.found, l.list)]

\* writeLeaflet: writes the list where getLeaflet read it; with no section
\* that has children it writes into the first top-level section, if any
writeLeaflet(epi, l) ==
    IF ~HasComposition(epi) THEN epi
    ELSE IF ~epi.hasSec THEN epi
    ELSE IF leafletSectionIndex(epi) = 0
         THEN IF Len(epi.sec) >= 1
              THEN [epi EXCEPT !.sec[1] = Top(l.found, l.list)]
              ELSE epi
    ELSE [epi EXCEPT !.sec[leafletSectionIndex(epi)] = Top(l.found, l.list)]

\* a marking that leaves the category code as it was
setCategoryCode_Keeps(epi) == epi

\* setCategoryCode(epi, "E", "Enhanced"); dereferences the Composition
setCategoryCode(epi) == [epi EXCEPT !.cat = "E"]

getlanguage(epi) == epi.lang
\* a getter that starts from an empty list
getExtensions_Fresh(epi) == <<>>

getExtensions(epi) == epi.ext
setExtensions(epi, extensions) == [epi EXCEPT !.ext = extensions]

\* ----------------------------------------------------------------- lens
\* A lens (FHIR Library).  name: Library.name or None.  contentKind: content
\* is absent, an array of attachments (atts) or a single object (odata is its
\* data).  data: Library.data.  A Base64 value is None (absent or not a
\* string), "" , " " (white space only) or one of the encodings below.
\* beh, tr and expl say what the decoded source does in the worker.
Att(data, url) == [data |-> data, url |-> url]
NoUrl == [isData |-> FALSE, hasB64 |-> FALSE, payload |-> None]
DataUrl(hasB64, payload) == [isData |-> TRUE, hasB64 |-> hasB64, payload |-> payload]

Lens(name, contentKind, atts, odata, data, beh, tr, expl) ==
    [name |-> name, contentKind |-> contentKind, atts |-> atts, odata |-> odata,
     data |-> data, beh |-> beh, tr |-> tr, expl |-> expl,
     identifier |-> None, id |-> None]

\* the lens with Library.identifier[0].value, Library.id and Library.name set
Identified(lens, identifier, id, name) ==
    [lens EXCEPT !.identifier = identifier, !.id = id, !.name = name]

\* Buffer.from(b64, 'base64').toString('utf-8')
Base64Decode(b) ==
    CASE b = "b64:code"   -> "code"
      [] b = "b64:blank"  -> " "
      [] b = "b64:inline" -> "inline source"
      [] b = "b64:url"    -> "url source"
      [] b = "b64:data"   -> "data source"
      [] b = "b64:object" -> "object source"
      [] OTHER            -> ""

\* String.prototype.trim on the strings of the model
Trim(str) == IF str = " " THEN "" ELSE str

\* lens.content.find(c => typeof c?.data === 'string' && c.data.length > 0)
RECURSIVE FindWithData(_)
FindWithData(atts) ==
    IF atts = <<>> THEN None
    ELSE IF Head(atts).data # None /\ Head(atts).data # ""
         THEN Head(atts).data ELSE FindWithData(Tail(atts))

\* lens.content.find(c => typeof c?.url === 'string' && c.url.startsWith('data:'))
RECURSIVE FindWithDataUrl(_)
FindWithDataUrl(atts) ==
    IF atts = <<>> THEN NoUrl
    ELSE IF Head(atts).url.isData THEN Head(atts).url ELSE FindWithDataUrl(Tail(atts))

\* an extraction that prefers Library.data to Library.content
extractLensBase64Data_DataFirst(lens) ==
    IF lens.data # None /\ lens.data # "" THEN lens.data
    ELSE IF lens.contentKind = "array" /\ lens.atts # <<>> /\ FindWithData(lens.atts) # None
    THEN FindWithData(lens.atts)
    ELSE IF lens.contentKind = "array" /\ lens.atts # <<>>
            /\ FindWithDataUrl(lens.atts).isData /\ FindWithDataUrl(lens.atts).hasB64
    THEN FindWithDataUrl(lens.atts).payload
    ELSE IF lens.contentKind = "object" /\ lens.odata # None THEN lens.odata
    ELSE None

\* extractLensBase64Data
extractLensBase64Data(lens) ==
    IF lens.contentKind = "array" /\ lens.atts # <<>> /\ FindWithData(lens.atts) # None
    THEN FindWithData(lens.atts)
    ELSE IF lens.contentKind = "array" /\ lens.atts # <<>>
            /\ FindWithDataUrl(lens.atts).isData /\ FindWithDataUrl(lens.atts).hasB64
    THEN FindWithDataUrl(lens.atts).payload
    ELSE IF lens.data # None /\ lens.data # "" THEN lens.data
    ELSE IF lens.contentKind = "object" /\ lens.odata # None THEN lens.odata
    ELSE None

getLensIdenfier(lens) == lens.name

\* the name applyLensToSections reports a lens under
LensNameOf(lens) == IF getLensIdenfier(lens) # None /\ getLensIdenfier(lens) # ""
                    THEN getLensIdenfier(lens) ELSE "Invalid Lens Name"

\* an extraction that does not look at the decoded text
ExtractionError_NoDecodedCheck(lens) ==
    LET lensBase64data == extractLensBase64Data(lens) IN
    IF lensBase64data = None \/ lensBase64data = ""
    THEN "Lens content missing: no Base64 data found in Library.content or Library.data"
    ELSE IF Trim(lensBase64data) = "" THEN "Lens Base64 data is empty"
    ELSE ""

\* applyLensToSections, lines 232-260: "" when the source text was decoded,
\* else the message of the error thrown
ExtractionError(lens) ==
    LET lensBase64data == extractLensBase64Data(lens) IN
    IF lensBase64data = None \/ lensBase64data = ""
    THEN "Lens content missing: no Base64 data found in Library.content or Library.data"
    ELSE IF Trim(lensBase64data) = "" THEN "Lens Base64 data is empty"
    ELSE IF Trim(Base64Decode(lensBase64data)) = "" THEN "Decoded lens code is empty"
    ELSE ""

\* an error that always carries the placeholder name
FocusingError_Unnamed(message, lensName) ==
    [message |-> message, lensName |-> "Invalid Lens Name"]

FocusingError(message, lensName) == [message |-> message, lensName |-> lensName]

\* what applyLensToSections returns
LensApplication(l, explanation, errors) ==
    [leafletSectionList |-> l, explanation |-> explanation, focusingErrors |-> errors]

\* --------------------------------------------------------------- config
\* The config argument: hasTimeout says that lensExecutionTimeout is given;
\* continueOnError is the option of ExecutionOptions, true when not given.
Config(hasTimeout, ms) ==
    [hasTimeout |-> hasTimeout, lensExecutionTimeout |-> ms, continueOnError |-> TRUE,
     disableLensLogging |-> FALSE]

\* the config with { logging: { disableLensLogging: true } }
DisableLensLogging(cfg) == [cfg EXCEPT !.disableLensLogging = TRUE]

\* resolveLensLogSink, lines 33-45: no sink when lens logging is disabled,
\* else the configured or the default one
resolveLensLogSink(cfg) == IF cfg.disableLensLogging THEN None ELSE "lensLogSink"

\* the config with { continueOnError: false }
StopOnError(cfg) == [cfg EXCEPT !.continueOnError = FALSE]

getDefaultConfig == [lensExecutionTimeout |-> LensExecutionTimeoutDefault]

\* a merge that lets the defaults win over the caller's config
effectiveConfig_DefaultsWin(cfg) == getDefaultConfig

\* { ...getDefaultConfig(), ...config }
effectiveConfig(cfg) ==
    IF cfg.hasTimeout THEN [lensExecutionTimeout |-> cfg.lensExecutionTimeout]
    ELSE getDefaultConfig

defaultExplanation(lang) ==
    CASE lang = "es" -> "Esta seccion fue resaltada porque es relevante para su salud."
      [] lang = "pt" -> "Esta secao foi destacada porque e relevante para a sua saude."
      [] lang = "da" -> "Denne sektion blev fremhaevet, fordi den er relevant for din sundhed."
      [] OTHER -> "This section was highlighted because it is relevant to your health."

\* ---------------------------------------------------------- lens-worker
\* what the lens's enhance() makes of the markup it was given
Transform(tr, html) ==
    CASE tr \in {"hl", "mutate"} ->
            [j \in DOMAIN html |-> [html[j] EXCEPT !.cls = "highlight"]]
      [] tr = "unmarked" -> [j \in DOMAIN html |-> [html[j] EXCEPT !.mk = FALSE]]
      [] tr = "add"      -> html \o <<Blk("new", TRUE, TRUE, "Added")>>
      [] tr = "empty"    -> <<>>
      [] tr = "drop"     -> SubSeq(html, 1, Len(html) - 1)
      [] OTHER           -> html

Success(html, explanation) ==
    [success |-> TRUE, enhancedHtml |-> html, explanation |-> explanation, error |-> ""]
Failure(error) ==
    [success |-> FALSE, enhancedHtml |-> <<>>, explanation |-> "", error |-> error]

\* the lens's behaviours that end in a postMessage
PostsMessage(lens) ==
    lens.beh \in {"ok", "compileThrows", "nonObject", "noEnhance", "enhanceThrows",
                  "enhanceRejects", "nonString"}

\* lens-worker.js: the message posted to the parent
WorkerMessageOf(lens, html) ==
    CASE lens.beh = "compileThrows" -> Failure("lens source threw")
      [] lens.beh = "nonObject" ->
            Failure("Lens function must return an object, received: undefined")
      [] lens.beh = "noEnhance" -> Failure("Lens must provide an enhance() function")
      [] lens.beh = "enhanceThrows" -> Failure("enhance threw")
      [] lens.beh = "enhanceRejects" -> Failure("enhance rejected")
      [] lens.beh = "nonString" ->
            Failure("enhance() must return a string, received: number")
      [] lens.beh = "ok" /\ lens.expl = "throws" -> Failure("explanation threw")
      [] lens.beh = "ok" /\ lens.expl = "rejects" -> Failure("explanation rejected")
      [] lens.beh = "ok" /\ lens.expl = "text" ->
            Success(Transform(lens.tr, html), "lens explanation")
      [] OTHER -> Success(Transform(lens.tr, html), "")

\* ------------------------------------------------- executeLensInWorker
\* One invocation: the closure state of executeLensInWorker (isSettled, the
\* timeout), its promise (state, value, number of resolve/reject calls) and
\* its worker (terminate requested, result message / error / exit delivered).
\* epi, ips, html: the workerData as cloned into the worker at its creation;
\* wd: the worker's own objects, which the lens is free to write to.
NoValue == Failure("")
NoIps == [rtype |-> "none", patient |-> None]
NoWorkerData == [epi |-> Epi("none", FALSE, FALSE, <<>>, None, <<>>), ips |-> NoIps,
                 html |-> <<>>]
NoInv == [created |-> FALSE, isSettled |-> FALSE, timer |-> FALSE,
          promise |-> "pending", value |-> NoValue, calls |-> 0,
          terminated |-> FALSE, posted |-> FALSE, errored |-> FALSE,
          exited |-> FALSE, html |-> <<>>, epi |-> NoWorkerData.epi,
          ips |-> NoIps, wd |-> NoWorkerData, timeoutMs |-> 0, logs |-> 0]

\* new Worker(..., { workerData: { lensCode, epi, ips, html } }),
\* isSettled = false, setTimeout(...)
NewInv(html, e, p) ==
    [NoInv EXCEPT !.created = TRUE, !.timer = TRUE, !.html = html, !.epi = e,
                  !.ips = p, !.wd = [epi |-> e, ips |-> p, html |-> html]]

\* setTimeout(..., timeoutMs): the delay the deadline timer is armed with
Armed(r, timeoutMs) == [r EXCEPT !.timeoutMs = timeoutMs]

\* what a lens that writes to its arguments leaves in the worker
Tamper(wd) ==
    [epi |-> [wd.epi EXCEPT !.sec = <<>>, !.ext = <<>>, !.cat = "X"],
     ips |-> [wd.ips EXCEPT !.patient = "tampered"],
     html |-> <<>>]
\* whether the lens has written to its arguments by the time it posts
Writes(lens) == IF lens.tr = "mutate" THEN BOOLEAN ELSE {FALSE}

\* resolve / reject of a promise: the first call decides, later calls are
\* counted and change nothing
Settle(r, state, value) ==
    [r EXCEPT !.calls = @ + 1,
              !.promise = IF r.promise = "pending" THEN state ELSE @,
              !.value = IF r.promise = "pending" THEN value ELSE @]

\* a setTimeout callback that rejects and leaves the worker running
OnTimeout_NoTerminate(r, timeoutMs) ==
    IF ~r.isSettled
    THEN Settle([r EXCEPT !.isSettled = TRUE], "rejected",
                Failure("Lens execution timed out after " \o ToString(timeoutMs) \o "ms"))
    ELSE r

\* the setTimeout callback, lines 168-174
OnTimeout(r, timeoutMs) ==
    IF ~r.isSettled
    THEN Settle([r EXCEPT !.isSettled = TRUE, !.terminated = TRUE], "rejected",
                Failure("Lens execution timed out after " \o ToString(timeoutMs) \o "ms"))
    ELSE r

\* a message handler that resolves without looking at message.success
OnMessage_IgnoresSuccess(r, message) ==
    IF ~r.isSettled
    THEN Settle([r EXCEPT !.isSettled = TRUE, !.timer = FALSE, !.terminated = TRUE],
                "resolved", message)
    ELSE r

\* a message handler that settles and leaves timer and worker as they are
OnMessage_KeepsTimer(r, message) ==
    IF ~r.isSettled
    THEN LET r1 == [r EXCEPT !.isSettled = TRUE]
         IN IF message.success
            THEN Settle(r1, "resolved", message)
            ELSE Settle(r1, "rejected",
                        Failure(IF message.error # "" THEN message.error
                                ELSE "Unknown worker error"))
    ELSE r

\* worker.on('message') for a result message, lines 193-203
OnMessage(r, message) ==
    IF ~r.isSettled
    THEN LET r1 == [r EXCEPT !.isSettled = TRUE, !.timer = FALSE, !.terminated = TRUE]
         IN IF message.success
            THEN Settle(r1, "resolved", message)
            ELSE Settle(r1, "rejected",
                        Failure(IF message.error # "" THEN message.error
                                ELSE "Unknown worker error"))
    ELSE r

\* an error handler that settles without rejecting
OnError_Swallows(r, error) ==
    IF ~r.isSettled
    THEN [r EXCEPT !.isSettled = TRUE, !.timer = FALSE]
    ELSE r

\* worker.on('error'), lines 207-213
OnError(r, error) ==
    IF ~r.isSettled
    THEN Settle([r EXCEPT !.isSettled = TRUE, !.timer = FALSE], "rejected", Failure(error))
    ELSE r

\* an exit handler that does not look at isSettled
OnExit_NoGuard(r, code) ==
    LET r1 == [r EXCEPT !.isSettled = TRUE, !.timer = FALSE]
    IN IF code # 0
       THEN Settle(r1, "rejected",
                   Failure("Worker stopped with exit code " \o ToString(code)))
       ELSE r1

\* worker.on('exit'), lines 216-224
OnExit(r, code) ==
    IF ~r.isSettled
    THEN LET r1 == [r EXCEPT !.isSettled = TRUE, !.timer = FALSE]
         IN IF code # 0
            THEN Settle(r1, "rejected",
                        Failure("Worker stopped with exit code " \o ToString(code)))
            ELSE r1
    ELSE r

\* ------------------------------------------------- applyLensToSections
\* applyLensToSections without the check for an empty section list
ApplySync_NoSectionCheck(lens, l) ==
    IF ExtractionError(lens) # ""
    THEN [kind |-> "done", html |-> <<>>,
          res |-> LensApplication(l, "",
                    <<FocusingError("Lens code extraction error: " \o ExtractionError(lens),
                                    LensNameOf(lens))>>)]
    ELSE IF ~getLeafletHTMLString(l.list).ok
    THEN [kind |-> "done", html |-> <<>>, res |-> LensApplication(l, "", <<>>)]
    ELSE [kind |-> "dispatch", html |-> getLeafletHTMLString(l.list).html,
          res |-> LensApplication(l, "", <<>>)]

\* applyLensToSections that skips a lens silently when there are no sections
ApplySync_SkipsSilently(lens, l) ==
    IF ExtractionError(lens) # ""
    THEN [kind |-> "done", html |-> <<>>,
          res |-> LensApplication(l, "",
                    <<FocusingError("Lens code extraction error: " \o ExtractionError(lens),
                                    LensNameOf(lens))>>)]
    ELSE IF ~l.found \/ l.list = <<>>
    THEN [kind |-> "done", html |-> <<>>, res |-> LensApplication(l, "", <<>>)]
    ELSE IF ~getLeafletHTMLString(l.list).ok
    THEN [kind |-> "done", html |-> <<>>, res |-> LensApplication(l, "", <<>>)]
    ELSE [kind |-> "dispatch", html |-> getLeafletHTMLString(l.list).html,
          res |-> LensApplication(l, "", <<>>)]

\* applyLensToSections up to its await: either it returns (kind "done", res
\* is what it returns) or it dispatches the flattened markup to a worker.
ApplySync(lens, l) ==
    IF ExtractionError(lens) # ""
    THEN [kind |-> "done", html |-> <<>>,
          res |-> LensApplication(l, "",
                    <<FocusingError("Lens code extraction error: " \o ExtractionError(lens),
                                    LensNameOf(lens))>>)]
    ELSE IF ~l.found \/ l.list = <<>>
    THEN [kind |-> "done", html |-> <<>>,
          res |-> LensApplication(l, "",
                    <<FocusingError("No leaflet sections found", LensNameOf(lens))>>)]
    ELSE IF ~getLeafletHTMLString(l.list).ok
    THEN \* the outer catch, lines 357-364: returns the (empty) focusingErrors
         [kind |-> "done", html |-> <<>>, res |-> LensApplication(l, "", <<>>)]
    ELSE [kind |-> "dispatch", html |-> getLeafletHTMLString(l.list).html,
          res |-> LensApplication(l, "", <<>>)]

\* a failure path that returns no section list
AfterWorker_LosesSections(lens, l, r) ==
    IF r.promise = "resolved"
    THEN LET newLeafletSectionList ==
                 getLeafletSectionListFromHTMLString(r.value.enhancedHtml, l.list)
         IN LensApplication(IF newLeafletSectionList = <<>> THEN l
                            ELSE List(newLeafletSectionList),
                            r.value.explanation, <<>>)
    ELSE LensApplication(NoList, "",
            <<FocusingError("Error executing lens: "
                              \o (IF r.value.error # "" THEN r.value.error ELSE "Error"),
                            LensNameOf(lens))>>)

\* a reconciliation that takes the new section list even when it is empty
AfterWorker_TakesEmptyList(lens, l, r) ==
    IF r.promise = "resolved"
    THEN LensApplication(
            List(getLeafletSectionListFromHTMLString(r.value.enhancedHtml, l.list)),
            r.value.explanation, <<>>)
    ELSE LensApplication(l, "",
            <<FocusingError("Error executing lens: "
                              \o (IF r.value.error # "" THEN r.value.error ELSE "Error"),
                            LensNameOf(lens))>>)

\* a reconciliation that treats a list with fewer sections as a failure
AfterWorker_RejectsShorter(lens, l, r) ==
    IF r.promise = "resolved"
    THEN LET newLeafletSectionList ==
                 getLeafletSectionListFromHTMLString(r.value.enhancedHtml, l.list)
         IN IF newLeafletSectionList = <<>>
            THEN LensApplication(l, r.value.explanation, <<>>)
            ELSE IF Len(newLeafletSectionList) < Len(l.list)
            THEN LensApplication(l, "",
                   <<FocusingError("Error executing lens: sections lost", LensNameOf(lens))>>)
            ELSE LensApplication(List(newLeafletSectionList), r.value.explanation, <<>>)
    ELSE LensApplication(l, "",
            <<FocusingError("Error executing lens: "
                              \o (IF r.value.error # "" THEN r.value.error ELSE "Error"),
                            LensNameOf(lens))>>)

\* applyLensToSections after the await, lines 314-356, for the settled
\* invocation r
AfterWorker(lens, l, r) ==
    IF r.promise = "resolved"
    THEN LET newLeafletSectionList ==
                 getLeafletSectionListFromHTMLString(r.value.enhancedHtml, l.list)
         IN LensApplication(IF newLeafletSectionList = <<>> THEN l
                            ELSE List(newLeafletSectionList),
                            r.value.explanation, <<>>)
    ELSE LensApplication(l, "",
            <<FocusingError("Error executing lens: "
                              \o (IF r.value.error # "" THEN r.value.error ELSE "Error"),
                            LensNameOf(lens))>>)

\* ------------------------------------------------------------ variables
VARIABLES
    epi,                \* the document, mutated in place
    epi0,               \* the document as it was passed in
    completeLenses,     \* the lenses passed in
    config,             \* the config passed in
    pc,                 \* "idle", "awaitSync", "awaitWorker", "returned", "rejected"
    i,                  \* position of the lens being applied
    leafletSectionList, \* the current section list
    focusingErrors,     \* one error list per lens folded so far
    pend,               \* what applyLensToSections returned without a worker
    ips,                \* the patient summary the caller passed in
    inv,                \* inv[k]: the invocation of executeLensInWorker for lens k
    sink,               \* Logger.sink, the static field of the Logger class
    callers,            \* callers[c]: a call of applyLenses as the logger sees it
    delivered,          \* the log entries handed to a sink so far
    lensLogs,           \* the entries handed to the lens log sink, in order
    input,              \* the argument of a helper function applied on its own
    output,             \* what the helper has computed from it
    stage               \* how far the helper's computation has come

\* the variables of one call of applyLenses, of the logger, and of a helper
\* applied on its own
main == <<epi, epi0, completeLenses, config, pc, i, leafletSectionList,
          focusingErrors, pend, ips, inv>>
logger == <<sink, callers, delivered>>
fn == <<input, output, stage>>
lensSink == <<lensLogs>>
aux == <<logger, fn, lensSink>>

vars == <<main, aux>>

\* --------------------------------------------------------------- inputs
S1 == Sec("T1", Code("c1", "d1"), <<Blk("a", TRUE, FALSE, None)>>, <<>>)
S2 == Sec("T2", Code("c2", "d2"), <<Blk("b", TRUE, TRUE, "H2")>>, <<>>)
PreExt == [url |-> "other", lens |-> "", elementClass |-> "", explanation |-> ""]

DGood      == Epi("Bundle", TRUE, TRUE, <<Top(FALSE, <<>>), Top(TRUE, <<S1, S2>>)>>, "es", <<PreExt>>)
DDirect    == Epi("Composition", FALSE, TRUE, <<Top(TRUE, <<S2>>)>>, None, <<>>)
DInvalid   == Epi("Invalid", FALSE, FALSE, <<>>, None, <<>>)
DNoComp    == Epi("Bundle", FALSE, FALSE, <<>>, None, <<>>)
DNoSecArr  == Epi("Composition", FALSE, FALSE, <<>>, "en", <<>>)
DNoSub     == Epi("Bundle", TRUE, TRUE, <<Top(FALSE, <<>>)>>, "en", <<>>)
DEmptyLeaf == Epi("Bundle", TRUE, TRUE, <<Top(TRUE, <<>>)>>, "en", <<>>)
DNullSec   == Epi("Bundle", TRUE, TRUE, <<Top(TRUE, <<S1, NullSec>>)>>, "en", <<>>)
\* a document that a previous run already marked as enhanced
DEnhanced  == [DDirect EXCEPT !.cat = "E"]
Docs == {DGood, DDirect, DInvalid, DNoComp, DNoSecArr, DNoSub, DEmptyLeaf, DNullSec,
         DEnhanced}

LValid == Lens("hl-lens", "array", <<Att("b64:code", NoUrl)>>, None, None, "ok", "hl", "text")
LThrow == Lens("throw-lens", "absent", <<>>, None, "b64:code", "enhanceThrows", "same", "none")
LNever == Lens("never-lens", "array", <<Att(None, DataUrl(TRUE, "b64:code"))>>, None, None,
               "never", "same", "none")
LCrash == Lens("crash-lens", "object", <<>>, "b64:code", None, "crash", "same", "none")
LNoPayload == Lens(None, "array", <<Att("", NoUrl)>>, None, None, "ok", "same", "none")
LMutate == Lens("mutating-lens", "array", <<Att("b64:code", NoUrl)>>, None, None,
                "ok", "mutate", "none")
LensPool == {LValid, LThrow, LNever, LCrash, LNoPayload, LMutate}

\* lenses that fail inside the worker, one per way of failing
Inline(name, beh, tr, expl) ==
    Lens(name, "array", <<Att("b64:code", NoUrl)>>, None, None, beh, tr, expl)
LCompileThrows == Inline("compile-throws", "compileThrows", "same", "none")
LNonObject     == Inline("non-object", "nonObject", "same", "none")
LNoEnhance     == Inline("no-enhance", "noEnhance", "same", "none")
LRejects       == Inline("enhance-rejects", "enhanceRejects", "same", "none")
LNonString     == Inline("non-string", "nonString", "same", "none")
\* lenses whose enhance() returns markup and whose explanation() fails
LExplThrows    == Inline("expl-throws", "ok", "hl", "throws")
LExplRejects   == Inline("expl-rejects", "ok", "hl", "rejects")
IsolatePool == {LValid, LThrow, LCrash, LNoPayload, LCompileThrows, LNonObject,
                LNoEnhance, LRejects, LNonString, LExplThrows, LExplRejects}

\* lenses without a usable payload: no content and no data; a content entry
\* whose data is the empty string; content as an object whose data is not a
\* string; white space for Base64; Base64 that decodes to nothing or to
\* white space; a data URL without "base64," or with nothing after it
NoSource(name, contentKind, atts, odata, data) ==
    Lens(name, contentKind, atts, odata, data, "nonObject", "same", "none")
LAbsent       == NoSource("absent", "absent", <<>>, None, None)
LNotString    == NoSource("not-a-string", "object", <<>>, None, None)
LBlank        == NoSource("blank", "absent", <<>>, None, " ")
LDecodesEmpty == NoSource("decodes-empty", "array", <<Att("b64:", NoUrl)>>, None, None)
LDecodesBlank == NoSource("decodes-blank", "object", <<>>, "b64:blank", None)
LUrlNoBase64  == NoSource("url-plain", "array", <<Att(None, DataUrl(FALSE, ""))>>, None, None)
LUrlEmpty     == NoSource("url-empty", "array", <<Att(None, DataUrl(TRUE, ""))>>, None, None)
BadPayloadLenses == {LNoPayload, LAbsent, LNotString, LBlank, LDecodesEmpty,
                     LDecodesBlank, LUrlNoBase64, LUrlEmpty}
PayloadPool == BadPayloadLenses \cup {LValid, LCrash}

LensLists == UNION {[1..n -> LensPool] : n \in 0..MaxLenses}

Configs == {Config(FALSE, 0), Config(TRUE, 50)}

SampleIps == [rtype |-> "Bundle", patient |-> "p1"]

NoPend == LensApplication(NoList, "", <<>>)

\* two calls of applyLenses as the logger sees them: not yet entered, each
\* configured with its own leeLogger and with `lenses` lenses to apply
Calls == {1, 2}
LeeLogger(c) == IF c = 1 THEN "sinkA" ELSE "sinkB"
NoCaller == [pc |-> "idle", previousLeeLogger |-> None, leeLogger |-> None,
             lenses |-> 0, k |-> 0]
LoggerIdle ==
    /\ sink = None
    /\ callers = [c \in Calls |-> NoCaller]
    /\ delivered = {}

\* no helper is being applied on its own
FnIdle == input = None /\ output = None /\ stage = "idle"

\* nothing was handed to the lens log sink
LensSinkIdle == lensLogs = <<>>

\* the state at a call of applyLenses with arguments drawn from the given sets
InitOf(docs, pool, configs) ==
    /\ LoggerIdle
    /\ FnIdle
    /\ LensSinkIdle
    /\ epi \in docs
    /\ epi0 = epi
    /\ completeLenses \in UNION {[1..n -> pool] : n \in 0..MaxLenses}
    /\ config \in configs
    /\ pc = "idle"
    /\ i = 0
    /\ leafletSectionList = NoList
    /\ focusingErrors = <<>>
    /\ pend = NoPend
    /\ ips = SampleIps
    /\ inv = [k \in 1..MaxLenses |-> NoInv]

Init ==
    /\ completeLenses \in LensLists
    /\ InitOf(Docs, LensPool, Configs)

\* ---------------------------------------------------------- applyLenses
IdString(x) == IF x = None THEN "undefined" ELSE x

\* the LensesApplied extension of lines 98-118
LensesApplied(lensIdentifier, explanationText) ==
    [url |-> "http://hl7.eu/fhir/ig/gravitate-health/StructureDefinition/LensesApplied",
     lens |-> "Library/" \o IdString(lensIdentifier),
     elementClass |-> lensIdentifier,
     explanation |-> explanationText]

\* every lens counts as applied
lensApplied_Always(lensApplication) == TRUE

\* line 90: the lens counts as applied when its error list is empty
lensApplied(lensApplication) == lensApplication.focusingErrors = <<>>

\* a fold that has no default explanation
FoldEpi_NoDefault(e, j, lensApplication) ==
    IF lensApplied(lensApplication)
    THEN IF lensApplication.explanation # ""
         THEN setExtensions(e, Append(getExtensions(e),
                LensesApplied(getLensIdenfier(completeLenses[j]),
                              lensApplication.explanation)))
         ELSE setExtensions(e, <<>>)
    ELSE e

\* a fold that also writes the lens's section list into the document
FoldEpi_WritesSections(e, j, lensApplication) ==
    IF lensApplied(lensApplication)
    THEN writeLeaflet(
           setExtensions(e, Append(getExtensions(e),
             LensesApplied(getLensIdenfier(completeLenses[j]),
                           IF lensApplication.explanation # ""
                           THEN lensApplication.explanation
                           ELSE defaultExplanation(getlanguage(e))))),
           lensApplication.leafletSectionList)
    ELSE e

\* lines 89-122 for lens j: the document after folding the application in
FoldEpi(e, j, lensApplication) ==
    IF lensApplied(lensApplication)
    THEN LET explanationText == IF lensApplication.explanation # ""
                                THEN lensApplication.explanation
                                ELSE defaultExplanation(getlanguage(e))
         IN IF explanationText # ""
            THEN setExtensions(e, Append(getExtensions(e),
                   LensesApplied(getLensIdenfier(completeLenses[j]), explanationText)))
            ELSE setExtensions(e, <<>>)
    ELSE e

\* lines 91-92: the current section list after folding the application in
FoldList(l, lensApplication) ==
    IF lensApplied(lensApplication) THEN lensApplication.leafletSectionList ELSE l

\* The loop of applyLenses from the head of iteration j to the next
\* suspension point: past the last lens it writes the leaflet and returns;
\* else it marks the document (a TypeError without a Composition), and runs
\* applyLensToSections up to its await.
ProceedFrom(j, e, l, errs) ==
    /\ focusingErrors' = errs
    /\ leafletSectionList' = l
    /\ IF j > Len(completeLenses)
       THEN /\ epi' = writeLeaflet(e, l)
            /\ pc' = "returned"
            /\ UNCHANGED <<i, pend, inv>>
       ELSE IF ~HasComposition(e)
       THEN /\ epi' = e
            /\ pc' = "rejected"
            /\ i' = j
            /\ UNCHANGED <<pend, inv>>
       ELSE /\ epi' = setCategoryCode(e)
            /\ i' = j
            /\ IF ApplySync(completeLenses[j], l).kind = "dispatch"
               THEN /\ inv' = [inv EXCEPT ![j] = Armed(NewInv(ApplySync(completeLenses[j], l).html,
                                                   setCategoryCode(e), ips),
                                            effectiveConfig(config).lensExecutionTimeout)]
                    /\ pc' = "awaitWorker"
                    /\ pend' = NoPend
               ELSE /\ pend' = ApplySync(completeLenses[j], l).res
                    /\ pc' = "awaitSync"
                    /\ UNCHANGED inv

\* applyLenses is called: lines 56-88 up to the first await
Call ==
    /\ pc = "idle"
    /\ ProceedFrom(1, epi, getLeaflet(epi), <<>>)
    /\ UNCHANGED <<epi0, completeLenses, config, ips, aux>>

\* the await of an applyLensToSections that returned without a worker
ContinueSync ==
    /\ pc = "awaitSync"
    /\ ProceedFrom(i + 1, FoldEpi(epi, i, pend), FoldList(leafletSectionList, pend),
                   Append(focusingErrors, pend.focusingErrors))
    /\ UNCHANGED <<epi0, completeLenses, config, ips, aux>>

\* a resumption that ends the loop at the first failed lens
ResumeWorker_StopsOnFailure ==
    /\ pc = "awaitWorker"
    /\ inv[i].promise # "pending"
    /\ LET lensApplication == AfterWorker(completeLenses[i], leafletSectionList, inv[i])
       IN ProceedFrom(IF lensApplied(lensApplication) THEN i + 1
                      ELSE Len(completeLenses) + 1,
                      FoldEpi(epi, i, lensApplication),
                      FoldList(leafletSectionList, lensApplication),
                      Append(focusingErrors, lensApplication.focusingErrors))
    /\ UNCHANGED <<epi0, completeLenses, config, ips, aux>>

\* a loop that goes on to the next lens without awaiting the invocation
ResumeWorker_NoAwait ==
    /\ pc = "awaitWorker"
    /\ LET lensApplication == AfterWorker(completeLenses[i], leafletSectionList, inv[i])
       IN ProceedFrom(i + 1, FoldEpi(epi, i, lensApplication),
                      FoldList(leafletSectionList, lensApplication),
                      Append(focusingErrors, lensApplication.focusingErrors))
    /\ UNCHANGED <<epi0, completeLenses, config, ips, aux>>

\* the await of executeLensInWorker resumes once its promise is settled
ResumeWorker ==
    /\ pc = "awaitWorker"
    /\ inv[i].promise # "pending"
    /\ LET lensApplication == AfterWorker(completeLenses[i], leafletSectionList, inv[i])
       IN ProceedFrom(i + 1, FoldEpi(epi, i, lensApplication),
                      FoldList(leafletSectionList, lensApplication),
                      Append(focusingErrors, lensApplication.focusingErrors))
    /\ UNCHANGED <<epi0, completeLenses, config, ips, aux>>

\* ---------------------------------------------------- events of a worker
orch == <<epi0, completeLenses, config, pc, i, leafletSectionList,
          focusingErrors, pend>>

\* the deadline timer of invocation k fires
TimerFire(k) ==
    /\ inv[k].created /\ inv[k].timer
    /\ inv' = [inv EXCEPT ![k] = OnTimeout([inv[k] EXCEPT !.timer = FALSE],
                                            inv[k].timeoutMs)]
    /\ UNCHANGED <<epi, ips, orch, aux>>

\* a worker whose patient summary is the caller's object, not a clone
WorkerMessage_SharedIps(k) ==
    /\ inv[k].created /\ ~inv[k].posted /\ ~inv[k].exited /\ ~inv[k].errored
    /\ PostsMessage(completeLenses[k])
    /\ \E w \in Writes(completeLenses[k]) :
         /\ inv' = [inv EXCEPT ![k] =
                       OnMessage([inv[k] EXCEPT !.posted = TRUE,
                                                !.wd = IF w THEN Tamper(@) ELSE @],
                                 WorkerMessageOf(completeLenses[k], inv[k].html))]
         /\ ips' = IF w THEN Tamper(inv[k].wd).ips ELSE ips
    /\ UNCHANGED <<epi, orch, aux>>

\* a worker whose document is the caller's object, not a clone
WorkerMessage_SharedEpi(k) ==
    /\ inv[k].created /\ ~inv[k].posted /\ ~inv[k].exited /\ ~inv[k].errored
    /\ PostsMessage(completeLenses[k])
    /\ \E w \in Writes(completeLenses[k]) :
         /\ inv' = [inv EXCEPT ![k] =
                       OnMessage([inv[k] EXCEPT !.posted = TRUE,
                                                !.wd = IF w THEN Tamper(@) ELSE @],
                                 WorkerMessageOf(completeLenses[k], inv[k].html))]
         /\ epi' = IF w THEN Tamper(inv[k].wd).epi ELSE epi
    /\ UNCHANGED <<ips, orch, aux>>

\* The lens of worker k has run on the worker's own workerData and the result
\* message is delivered.
WorkerMessage(k) ==
    /\ inv[k].created /\ ~inv[k].posted /\ ~inv[k].exited /\ ~inv[k].errored
    /\ PostsMessage(completeLenses[k])
    /\ \E w \in Writes(completeLenses[k]) :
         inv' = [inv EXCEPT ![k] =
                   OnMessage([inv[k] EXCEPT !.posted = TRUE,
                                            !.wd = IF w THEN Tamper(@) ELSE @],
                             WorkerMessageOf(completeLenses[k], inv[k].html))]
    /\ UNCHANGED <<epi, ips, orch, aux>>

\* an uncaught exception in worker k
WorkerError(k) ==
    /\ inv[k].created /\ ~inv[k].posted /\ ~inv[k].exited /\ ~inv[k].errored
    /\ completeLenses[k].beh = "crash"
    /\ inv' = [inv EXCEPT ![k] = OnError([inv[k] EXCEPT !.errored = TRUE], "uncaught exception")]
    /\ UNCHANGED <<epi, ips, orch, aux>>

\* The exit codes worker k can exit with: 1 after terminate() or an uncaught
\* exception or process.exit(1); 0 when its event loop is empty, which is
\* after the result was posted, or with an enhance() whose promise is never
\* settled and nothing else pending.
ExitCodes(k) ==
    (IF inv[k].terminated \/ inv[k].errored \/ completeLenses[k].beh = "crash"
     THEN {1} ELSE {})
    \cup (IF inv[k].posted \/ (completeLenses[k].beh = "never" /\ ~inv[k].terminated)
          THEN {0} ELSE {})

\* worker k exits
WorkerExit(k) ==
    /\ inv[k].created /\ ~inv[k].exited
    /\ \E code \in ExitCodes(k) :
         inv' = [inv EXCEPT ![k] = OnExit([inv[k] EXCEPT !.exited = TRUE], code)]
    /\ UNCHANGED <<epi, ips, orch, aux>>

Next ==
    \/ Call
    \/ ContinueSync
    \/ ResumeWorker
    \/ \E k \in 1..MaxLenses : TimerFire(k)
    \/ \E k \in 1..MaxLenses : WorkerMessage(k)
    \/ \E k \in 1..MaxLenses : WorkerError(k)
    \/ \E k \in 1..MaxLenses : WorkerExit(k)

Spec == Init /\ [][Next]_vars

\* The timer of node fires once its delay has passed, and the event loop runs
\* every continuation that is ready; a worker owes nothing.
FairSpec ==
    /\ Spec
    /\ WF_vars(Call) /\ WF_vars(ContinueSync) /\ WF_vars(ResumeWorker)
    /\ \A k \in 1..MaxLenses : WF_vars(TimerFire(k))

\* applyLenses on a well-formed document with lenses that fail in the worker
IsolateInit == InitOf({DGood}, IsolatePool, {Config(FALSE, 0)})
IsolateSpec == IsolateInit /\ [][Next]_vars

\* applyLenses with lenses whose payload cannot be decoded
PayloadInit == InitOf({DGood, DEmptyLeaf}, PayloadPool, {Config(FALSE, 0)})
PayloadSpec == PayloadInit /\ [][Next]_vars

\* applyLenses is not being called
MainIdle ==
    /\ epi = DGood /\ epi0 = DGood /\ completeLenses = <<>>
    /\ config = Config(FALSE, 0) /\ pc = "idle" /\ i = 0
    /\ leafletSectionList = NoList /\ focusingErrors = <<>> /\ pend = NoPend
    /\ ips = SampleIps /\ inv = [k \in 1..MaxLenses |-> NoInv]
    /\ LensSinkIdle

\* ------------------------------------------------- overlapping calls
\* Logger.log: the entry goes to Logger.sink, or to the console without one
LogEntry(c, line, s) == [call |-> c, line |-> line, to |-> IF s = None THEN "console" ELSE s]

\* Call c enters applyLenses, lines 56-88 and 264-304: it saves Logger.sink,
\* installs its own leeLogger, logs the lens list and "Applying lens", and is
\* suspended on the worker of its first lens.
Enter(c) ==
    /\ callers[c].pc = "idle"
    /\ LET own == callers[c].leeLogger
           s == IF own # None THEN own ELSE sink
       IN /\ sink' = s
          /\ callers' = [callers EXCEPT ![c].pc = "await", ![c].k = 1,
                                        ![c].previousLeeLogger = sink]
          /\ delivered' = delivered \cup {LogEntry(c, 71, s), LogEntry(c, 264, s)}
    /\ UNCHANGED <<main, fn, lensSink>>

\* The worker of call c has settled, lines 314-349: the outcome is logged;
\* with lenses left the next one is started, else the finally block of
\* lines 128-132 puts the saved sink back.
Settled(c) ==
    /\ callers[c].pc = "await"
    /\ IF callers[c].k < callers[c].lenses
       THEN /\ callers' = [callers EXCEPT ![c].k = @ + 1]
            /\ delivered' = delivered \cup {LogEntry(c, 319, sink), LogEntry(c, 264, sink)}
            /\ UNCHANGED sink
       ELSE /\ callers' = [callers EXCEPT ![c].pc = "done"]
            /\ delivered' = delivered \cup {LogEntry(c, 319, sink)}
            /\ sink' = IF callers[c].leeLogger # None
                       THEN callers[c].previousLeeLogger ELSE sink
    /\ UNCHANGED <<main, fn, lensSink>>

\* Two calls, each with its own leeLogger and one lens or more, on a process
\* whose Logger has no sink or the application's.
LogInit ==
    /\ MainIdle
    /\ FnIdle
    /\ sink \in {None, "appSink"}
    /\ callers \in {[c \in Calls |-> [NoCaller EXCEPT !.leeLogger = LeeLogger(c),
                                                      !.lenses = n[c]]] :
                      n \in [Calls -> 1..MaxLenses]}
    /\ delivered = {}

LogNext == \E c \in Calls : Enter(c) \/ Settled(c)

LogSpec == LogInit /\ [][LogNext]_vars

\* ---------------------------------------- flattening and reconciling
\* Sections as a leaflet holds them: with one marked div; with child
\* sections; with an entry whose resource has markup; without markup; with
\* markup that is not a marked div.
P1 == Sec("P", Code("cp", "dp"), <<Blk("p", TRUE, FALSE, None)>>,
          <<Sec("P.1", Code("cp1", "dp1"), <<Blk("p1", TRUE, FALSE, None)>>, <<>>)>>)
E1 == SecWithEntry("E", Code("ce", "de"), <<Blk("e", TRUE, FALSE, None)>>, <<>>,
                   <<Entry(<<Blk("e1", TRUE, FALSE, None)>>, <<>>)>>)
B1 == Sec("B", Code("cb", "db"), <<>>, <<>>)
U1 == Sec("U", Code("cu", "du"), <<Blk("u", FALSE, FALSE, None)>>, <<>>)
SectionPool == {S1, S2, P1, E1, B1, U1}
SectionLists == UNION {[1..n -> SectionPool] : n \in 0..MaxSections}

RoundTripInit ==
    /\ MainIdle
    /\ LoggerIdle
    /\ input \in SectionLists
    /\ output = <<>>
    /\ stage = "list"

\* getLeafletHTMLString(leafletSectionList)
Flatten ==
    /\ stage = "list"
    /\ getLeafletHTMLString(input).ok
    /\ output' = getLeafletHTMLString(input).html
    /\ stage' = "markup"
    /\ UNCHANGED <<main, logger, lensSink, input>>

\* getLeafletSectionListFromHTMLString(html, leafletSectionList) on the
\* markup as it was flattened
Reconcile ==
    /\ stage = "markup"
    /\ output' = getLeafletSectionListFromHTMLString(output, input)
    /\ stage' = "reconciled"
    /\ UNCHANGED <<main, logger, lensSink, input>>

RoundTripNext == Flatten \/ Reconcile

RoundTripSpec == RoundTripInit /\ [][RoundTripNext]_vars

\* --------------------------------------------- writing the leaflet
\* writeLeaflet applied on its own, and getLeaflet on what it wrote: to a
\* document with up to MaxSections top-level sections, each without child
\* sections, with an empty array of them or with one child, under a
\* Composition, a Bundle with or without one, or without a section array;
\* and a section list that is null, empty or has sections.
WriteInit ==
    /\ MainIdle
    /\ LoggerIdle
    /\ input \in [epi : {Epi(r[1], r[2], TRUE, sec, "en", <<PreExt>>) :
                           r \in {<<"Composition", FALSE>>, <<"Bundle", TRUE>>,
                                  <<"Bundle", FALSE>>},
                           sec \in UNION {[1..n -> {Top(FALSE, <<>>), Top(TRUE, <<>>),
                                                    Top(TRUE, <<S1>>)}] :
                                           n \in 0..MaxSections}}
                          \cup {DNoSecArr},
                    list : {NoList, List(<<>>), List(<<S2>>), List(<<S2, S1>>)}]
    /\ output = None
    /\ stage = "doc"

\* writeLeaflet(epi, leafletSectionList)
Write ==
    /\ stage = "doc"
    /\ output' = [epi |-> writeLeaflet(input.epi, input.list), list |-> NoList]
    /\ stage' = "written"
    /\ UNCHANGED <<main, logger, lensSink, input>>

\* getLeaflet(epi) on the document that was written
Read ==
    /\ stage = "written"
    /\ output' = [output EXCEPT !.list = getLeaflet(output.epi)]
    /\ stage' = "read"
    /\ UNCHANGED <<main, logger, lensSink, input>>

WriteSpec == WriteInit /\ [][Write \/ Read]_vars

\* ------------------------------------------------ nested leaflets
\* documents whose leaflet has a section with a child section, and a section
\* with an entry
DNested == Epi("Bundle", TRUE, TRUE, <<Top(FALSE, <<>>), Top(TRUE, <<P1, S2>>)>>, "en", <<>>)
DEntry  == Epi("Composition", FALSE, TRUE, <<Top(TRUE, <<S1, E1>>)>>, "en", <<>>)
\* a lens that returns the markup it was given
LSame == Inline("same-lens", "ok", "same", "none")
StructureInit ==
    InitOf({DGood, DNested, DEntry}, {LValid, LSame, LThrow, LCrash, LNoPayload},
           {Config(FALSE, 0)})
StructureSpec == StructureInit /\ [][Next]_vars

\* --------------------------------------------------------- decoding
\* Library resources by where they keep their payload: content as an array
\* of up to MaxAtts attachments (inline data, empty data, a base64 data URL,
\* a data URL without base64, both, neither), content as an object, no
\* content; each with or without Library.data.
AttPool == {Att("b64:inline", NoUrl), Att("", NoUrl), Att(None, DataUrl(TRUE, "b64:url")),
            Att(None, DataUrl(FALSE, "")), Att("b64:inline", DataUrl(TRUE, "b64:url")),
            Att(None, NoUrl)}
Shape(contentKind, atts, odata, data) ==
    Lens("shape", contentKind, atts, odata, data, "ok", "same", "none")
LensShapes ==
    {Shape("array", atts, None, data) :
        atts \in UNION {[1..n -> AttPool] : n \in 0..MaxAtts}, data \in {None, "b64:data"}}
    \cup {Shape("object", <<>>, odata, data) :
             odata \in {None, "", "b64:object"}, data \in {None, "", "b64:data"}}
    \cup {Shape("absent", <<>>, None, data) : data \in {None, "", "b64:data"}}

DecodeInit ==
    /\ MainIdle
    /\ LoggerIdle
    /\ input \in LensShapes
    /\ output = None
    /\ stage = "lens"

\* extractLensBase64Data(lens)
Extract ==
    /\ stage = "lens"
    /\ output' = extractLensBase64Data(input)
    /\ stage' = "payload"
    /\ UNCHANGED <<main, logger, lensSink, input>>

\* Buffer.from(lensBase64data, 'base64').toString('utf-8'), line 245
Decode ==
    /\ stage = "payload"
    /\ output # None
    /\ output' = Base64Decode(output)
    /\ stage' = "source"
    /\ UNCHANGED <<main, logger, lensSink, input>>

DecodeNext == Extract \/ Decode

DecodeSpec == DecodeInit /\ [][DecodeNext]_vars

\* --------------------------------------------------- lens identifiers
\* lenses with an identifier value, an id and a name; with an id only; with
\* a name only; with none of them; succeeding and failing
IdentifierPool ==
    {Identified(LValid, "ident-1", "id-1", "Name 1"),
     Identified(LValid, None, "id-2", None),
     Identified(LValid, None, None, None),
     Identified(LThrow, "ident-4", None, "Name 4"),
     Identified(LThrow, "", "id-5", None),
     Identified(LNoPayload, "ident-6", "id-6", None),
     LCrash}
IdentifierInit == InitOf({DGood}, IdentifierPool, {Config(FALSE, 0)})
IdentifierSpec == IdentifierInit /\ [][Next]_vars

\* -------------------------------------------------- early termination
\* calls with and without the request to stop at the first failing lens
EarlyStopInit ==
    InitOf({DGood}, {LValid, LThrow, LCrash, LNoPayload},
           {Config(FALSE, 0), StopOnError(Config(FALSE, 0)), StopOnError(Config(TRUE, 50))})
EarlyStopSpec == EarlyStopInit /\ [][Next]_vars

\* ------------------------------------------- empty reconciliation
\* lenses whose markup has no marked div left, or is the empty string
LUnmarked == Inline("unmarked-lens", "ok", "unmarked", "text")
LEmpty    == Inline("empty-lens", "ok", "empty", "none")
EmptyListInit ==
    InitOf({DGood, DDirect}, {LValid, LUnmarked, LEmpty, LThrow, LCrash, LNoPayload},
           {Config(FALSE, 0)})
EmptyListSpec == EmptyListInit /\ [][Next]_vars

\* ------------------------------------------------- fewer sections
\* a lens whose markup lacks the last marked div of what it was given
LDrop == Inline("drop-lens", "ok", "drop", "none")
ShorterInit ==
    InitOf({DGood, DDirect}, {LValid, LDrop, LThrow, LCrash, LNoPayload}, {Config(FALSE, 0)})
ShorterSpec == ShorterInit /\ [][Next]_vars

\* ---------------------------------------------------- explanations
\* documents in each language with a default explanation, in another
\* language and without a language; lenses with and without an explanation
Languages == {"en", "es", "pt", "da", "fr", None}
ExplanationInit ==
    InitOf({[DGood EXCEPT !.lang = l] : l \in Languages},
           {LValid, LSame, LThrow, LCrash, LNoPayload}, {Config(FALSE, 0)})
ExplanationSpec == ExplanationInit /\ [][Next]_vars

\* ------------------------------------------------------ lens log events
\* how many log events the workers of one call post
MaxLogs == 2

\* the log messages the workers of the first k lenses have posted
RECURSIVE LogsPosted(_)
LogsPosted(k) == IF k = 0 THEN 0 ELSE LogsPosted(k - 1) + inv[k].logs

\* lines 178-191: the entry made of the n-th log message of the worker of
\* lens k
LensLogEntry(k, level, n) ==
    [level |-> IF level = None THEN "INFO" ELSE level,
     file |-> "lens:" \o LensNameOf(completeLenses[k]),
     task |-> "console", source |-> "LENS",
     lensId |-> LensNameOf(completeLenses[k]), worker |-> k, message |-> n]

\* a handler that puts the newest entry first
WorkerLog_NewestFirst(k) ==
    /\ inv[k].created /\ ~inv[k].exited
    /\ LogsPosted(MaxLenses) < MaxLogs
    /\ inv' = [inv EXCEPT ![k].logs = @ + 1]
    /\ \E level \in {None, "WARN"} :
          lensLogs' = IF resolveLensLogSink(config) = None THEN lensLogs
                      ELSE <<LensLogEntry(k, level, inv[k].logs + 1)>> \o lensLogs
    /\ UNCHANGED <<epi, ips, orch, logger, fn>>

\* The next message of type "log" of worker k arrives (the port hands the
\* messages over in the order they were posted), which it can post as long
\* as its thread has not exited: lines 178-191 hand the entry to the lens log
\* sink, if there is one, and return.
WorkerLog(k) ==
    /\ inv[k].created /\ ~inv[k].exited
    /\ LogsPosted(MaxLenses) < MaxLogs
    /\ inv' = [inv EXCEPT ![k].logs = @ + 1]
    /\ \E level \in {None, "WARN"} :
          lensLogs' = IF resolveLensLogSink(config) = None THEN lensLogs
                      ELSE Append(lensLogs, LensLogEntry(k, level, inv[k].logs + 1))
    /\ UNCHANGED <<epi, ips, orch, logger, fn>>

LensLogInit ==
    InitOf({DGood}, {LValid, LCrash, LNoPayload},
           {Config(TRUE, 50), DisableLensLogging(Config(TRUE, 50))})
LensLogNext == Next \/ \E k \in 1..MaxLenses : WorkerLog(k)
LensLogSpec == LensLogInit /\ [][LensLogNext]_vars

\* ================================================================ claims
Finished == pc \in {"returned", "rejected"}
Invs == 1..MaxLenses

\* C1: every invocation of executeLensInWorker eventually settles (its
\* promise is resolved or rejected) and so the call of applyLenses eventually
\* finishes, whatever the worker does.
C1_EveryInvocationSettles ==
    /\ \A k \in Invs : (inv[k].created ~> inv[k].promise # "pending")
    /\ <>Finished

\* C2: per invocation resolve/reject is called at most once, and once the
\* invocation is settled no message, error, exit or timer firing changes the
\* state or the value of its promise.
C2_SettledAtMostOnce ==
    [][\A k \in Invs :
          /\ inv'[k].calls <= 1
          /\ inv[k].isSettled =>
                /\ inv'[k].promise = inv[k].promise
                /\ inv'[k].value = inv[k].value
                /\ inv'[k].calls = inv[k].calls]_vars

\* a success followed by the exit that terminate() causes, and a timeout
\* followed by the late result message
C2_Witness ==
    /\ \E k \in Invs : inv[k].promise = "resolved" /\ inv[k].exited
    /\ \E k \in Invs : /\ inv[k].promise = "rejected" /\ inv[k].posted
                       /\ inv[k].value.error = "Lens execution timed out after 1000ms"

\* the error list a failing lens gets, by the kind of its failure
IsFailed(k) == k <= Len(focusingErrors) /\ focusingErrors[k] # <<>>

\* the document [failing lens, succeeding lens] must end in: the second lens's
\* output on the original markup, reconciled against the original sections
ExpectedAfterSecond ==
    LET l0 == getLeaflet(epi0)
        out == WorkerMessageOf(completeLenses[2], getLeafletHTMLString(l0.list).html)
    IN List(getLeafletSectionListFromHTMLString(out.enhancedHtml, l0.list))

\* C3: a failed lens j never keeps lens j+1 from running and succeeding: the
\* call returns only with lens j+1 folded in; lens j+1 is dispatched the
\* markup lens j was dispatched; if its invocation resolves its error list is
\* empty; and for [failing, succeeding] the returned sections are those of the
\* second lens alone, with its one extension.
C3_FailureDoesNotBlockLater ==
    pc = "returned" =>
      \A j \in 1..(Len(completeLenses) - 1) :
        IsFailed(j) =>
          /\ Len(focusingErrors) >= j + 1
          /\ (inv[j].created /\ ExtractionError(completeLenses[j + 1]) = "") =>
                (inv[j + 1].created /\ inv[j + 1].html = inv[j].html)
          /\ inv[j + 1].promise = "resolved" => focusingErrors[j + 1] = <<>>
          /\ (j = 1 /\ Len(completeLenses) = 2 /\ inv[2].promise = "resolved") =>
                /\ getLeaflet(epi) = ExpectedAfterSecond
                /\ Len(epi.ext) = Len(epi0.ext) + 1
                /\ epi.ext[Len(epi.ext)].elementClass = completeLenses[2].name

\* [throwing lens, valid lens] returned [[err], []]
C3_Witness ==
    /\ pc = "returned"
    /\ completeLenses = <<LThrow, LValid>>
    /\ Len(focusingErrors) = 2 /\ Len(focusingErrors[1]) = 1 /\ focusingErrors[2] = <<>>
    /\ inv[1].promise = "rejected" /\ inv[2].promise = "resolved"
    /\ getLeaflet(epi).list # getLeaflet(epi0).list

\* C4: at return focusingErrors has one entry per lens, entry k is empty
\* exactly when the invocation of lens k succeeded, and its errors carry the
\* name of lens k.
C4_ErrorsMatchLenses ==
    pc = "returned" =>
      /\ Len(focusingErrors) = Len(completeLenses)
      /\ \A k \in 1..Len(focusingErrors) :
            /\ focusingErrors[k] = <<>> <=> (inv[k].created /\ inv[k].promise = "resolved")
            /\ \A e \in 1..Len(focusingErrors[k]) :
                  focusingErrors[k][e].lensName = LensNameOf(completeLenses[k])

\* lens i is about to be folded in as failed: its invocation was rejected, or
\* applyLensToSections returned an error without creating a worker
FailedLensPending ==
    \/ pc = "awaitWorker" /\ inv[i].promise = "rejected"
    \/ pc = "awaitSync" /\ pend.focusingErrors # <<>>

\* C5: the step that folds in a failed lens leaves the current section list
\* and the extensions of the Composition as they were, and records a
\* non-empty error list for it.
C5_FailureLeavesSectionsAndExtensions ==
    [][(FailedLensPending /\ focusingErrors' # focusingErrors) =>
        /\ leafletSectionList' = leafletSectionList
        /\ epi'.ext = epi.ext
        /\ Len(focusingErrors') = Len(focusingErrors) + 1
        /\ focusingErrors'[i] # <<>>]_vars

\* a rejected invocation has been folded in, with sections and an extension
\* in the document
C5_Witness ==
    \E k \in Invs :
       /\ inv[k].promise = "rejected" /\ Len(focusingErrors) >= k
       /\ leafletSectionList.list # <<>> /\ epi.ext # <<>>

TimeoutError(k) ==
    FocusingError("Error executing lens: Lens execution timed out after "
                    \o ToString(effectiveConfig(config).lensExecutionTimeout) \o "ms",
                  LensNameOf(completeLenses[k]))

NeverLensDispatched(k) ==
    IF k <= Len(completeLenses)
    THEN inv[k].created /\ completeLenses[k].beh = "never" ELSE FALSE
TimeoutReturned(k) ==
    IF pc = "returned" /\ k <= Len(focusingErrors)
    THEN focusingErrors[k] = <<TimeoutError(k)>> ELSE FALSE

\* C6: a lens whose enhance() never settles gets exactly one FocusingError,
\* the one of the timeout, and the call returns with it.
C6_NeverSettlingLensTimesOut ==
    \A k \in Invs : NeverLensDispatched(k) ~> TimeoutReturned(k)

Resolved(k) == inv[k].created /\ inv[k].promise = "resolved"

\* C7: a lens has an empty error list only if its invocation resolved with a
\* success, and the extensions appended so far are as many as the lenses
\* folded in whose invocation resolved.
C7_EmptyErrorsOnlyOnSuccess ==
    /\ \A k \in 1..Len(focusingErrors) : focusingErrors[k] = <<>> => Resolved(k)
    /\ Len(epi.ext) - Len(epi0.ext)
         = Cardinality({k \in 1..Len(focusingErrors) : Resolved(k)})

\* C8: with a document that has no Composition the call never returns a
\* result.
C8_NoRootRejects == ~HasComposition(epi0) => pc # "returned"

NoSections(e) == ~getLeaflet(e).found \/ getLeaflet(e).list = <<>>

NoSectionsError(lens) ==
    FocusingError(IF ExtractionError(lens) # ""
                  THEN "Lens code extraction error: " \o ExtractionError(lens)
                  ELSE "No leaflet sections found",
                  LensNameOf(lens))

RECURSIVE SectionsMarkup(_)
SectionsMarkup(list) ==
    IF list = <<>> THEN <<>>
    ELSE (IF Head(list).isNull THEN <<>>
          ELSE Head(list).div \o SectionsMarkup(Head(list).sub))
         \o SectionsMarkup(Tail(list))

\* the markup of a document, one entry per top-level section
TopsMarkup(sec) == [t \in 1..Len(sec) |-> SectionsMarkup(sec[t].sub)]

C11_EnhancedIffLenses ==
    pc = "returned" => (epi.cat = "E" <=> completeLenses # <<>>)

\* C11 (amended): after applyLenses returns, a non-empty lens list has left
\* the enhanced marker on the document whatever the outcome of each lens, and
\* an empty lens list has left the category code the document came with.
C11_EnhancedMarker ==
    pc = "returned" =>
        IF completeLenses # <<>> THEN epi.cat = "E" ELSE epi.cat = epi0.cat

\* every lens of a non-empty list failed on a document that came unmarked
C11_Witness ==
    /\ pc = "returned"
    /\ Len(completeLenses) = MaxLenses
    /\ \A k \in 1..Len(completeLenses) : focusingErrors[k] # <<>>
    /\ epi0.cat = "R"
    /\ epi.cat = "E"
\* C12: applyLenses never modifies the caller's patient summary, and every
\* lens is dispatched that same patient summary, whatever earlier lenses
\* wrote to theirs.
C12_IpsNeverModified ==
    /\ ips = SampleIps
    /\ \A k \in Invs : inv[k].created => inv[k].ips = SampleIps

\* the first lens wrote to its patient summary, a second lens was dispatched
C12_Witness ==
    /\ pc = "returned"
    /\ Len(completeLenses) = 2
    /\ inv[1].created /\ inv[1].wd.ips # SampleIps
    /\ inv[2].created /\ inv[2].ips = SampleIps
\* what the orchestrator receives from invocation k: how its promise was
\* settled and with which markup and explanation, or error
Returned(k) == [NoInv EXCEPT !.promise = inv[k].promise, !.value = inv[k].value]

\* The document and section list after lenses 1..k, recomputed from the
\* arguments of the call and from what each invocation returned, and from
\* nothing the lenses left in their workers.
RECURSIVE Replay(_)
Replay(k) ==
    IF k = 0 THEN [epi |-> epi0, l |-> getLeaflet(epi0)]
    ELSE LET p == Replay(k - 1)
             a == ApplySync(completeLenses[k], p.l)
             lensApplication ==
                 IF a.kind = "dispatch"
                 THEN AfterWorker(completeLenses[k], p.l, Returned(k))
                 ELSE a.res
         IN [epi |-> FoldEpi(setCategoryCode(p.epi), k, lensApplication),
             l |-> FoldList(p.l, lensApplication)]

\* the workerData lens k is created with, recomputed in the same way
DispatchedTo(k) ==
    [epi |-> setCategoryCode(Replay(k - 1).epi), ips |-> SampleIps,
     html |-> ApplySync(completeLenses[k], Replay(k - 1).l).html]

\* C13: a lens reaches the orchestrator's document and the inputs of later
\* lenses only through the markup and explanation it returns: the workerData
\* of every invocation and the returned document are functions of the call's
\* arguments and of what the earlier invocations returned, so two runs that
\* differ only in what a lens wrote to its own copies agree on both.
C13_OnlyReturnedValuesFlow ==
    /\ \A k \in Invs :
          inv[k].created =>
              [epi |-> inv[k].epi, ips |-> inv[k].ips, html |-> inv[k].html]
                  = DispatchedTo(k)
    /\ pc = "returned" =>
          epi = writeLeaflet(Replay(Len(completeLenses)).epi,
                             Replay(Len(completeLenses)).l)

\* lens 1 wrote to its copies and resolved, lens 2 ran after it and resolved
C13_Witness ==
    /\ pc = "returned"
    /\ Len(completeLenses) = 2
    /\ inv[1].created /\ inv[1].promise = "resolved"
    /\ inv[1].wd = Tamper([epi |-> inv[1].epi, ips |-> inv[1].ips, html |-> inv[1].html])
    /\ inv[2].created /\ inv[2].promise = "resolved"
    /\ epi # epi0
ExplanationFails(lens) == lens.beh = "ok" /\ lens.expl \in {"throws", "rejects"}

\* invocation k was settled by the result message of its worker
SettledByMessage(k) ==
    /\ inv[k].created /\ inv[k].posted /\ inv[k].promise # "pending"
    /\ inv[k].value.error
         # "Lens execution timed out after "
             \o ToString(effectiveConfig(config).lensExecutionTimeout) \o "ms"

\* C14: a lens whose enhance returns a string and whose explanation throws or
\* rejects is a success: its invocation resolves with the enhanced markup and
\* the empty explanation, and no FocusingError is recorded for it.
C14_ExplanationFailureSwallowed ==
    \A k \in Invs :
       (k <= Len(completeLenses) /\ ExplanationFails(completeLenses[k])
          /\ SettledByMessage(k)) =>
           /\ inv[k].promise = "resolved"
           /\ inv[k].value.enhancedHtml = Transform(completeLenses[k].tr, inv[k].html)
           /\ inv[k].value.explanation = ""
           /\ k <= Len(focusingErrors) => focusingErrors[k] = <<>>
RuntimeFailure(lens) ==
    lens.beh \in {"compileThrows", "nonObject", "noEnhance", "enhanceThrows",
                  "enhanceRejects", "nonString"}

\* the error list applyLensToSections returns for the rejected invocation k
ExecutionErrors(k) ==
    <<FocusingError("Error executing lens: " \o inv[k].value.error,
                    LensNameOf(completeLenses[k]))>>

ExtractionMessages ==
    {"Lens code extraction error: " \o m :
        m \in {"Lens content missing: no Base64 data found in Library.content or Library.data",
               "Lens Base64 data is empty", "Decoded lens code is empty"}}

\* C16: for a lens whose payload is missing, not a string, empty, or decodes
\* to empty or white-space-only source, no worker is ever created and exactly
\* one FocusingError, an extraction error under the lens's name, is recorded;
\* the step that folds it in leaves the document and the section list as
\* they are (the leaflet is written back if it was the last lens) and moves
\* to the next lens, which is handed the unchanged markup; a run of such
\* lenses only returns the input with the enhanced marker set.
C16_BadPayloadOneError ==
    /\ [](\A k \in Invs :
            (k <= Len(completeLenses) /\ completeLenses[k] \in BadPayloadLenses) =>
                /\ ~inv[k].created
                /\ k <= Len(focusingErrors) =>
                     /\ Len(focusingErrors[k]) = 1
                     /\ focusingErrors[k][1].message \in ExtractionMessages
                     /\ focusingErrors[k][1].lensName = LensNameOf(completeLenses[k]))
    /\ []((/\ pc = "returned" /\ completeLenses # <<>>
           /\ \A k \in 1..Len(completeLenses) : completeLenses[k] \in BadPayloadLenses)
          => epi = setCategoryCode(epi0))
    /\ [][(pc = "awaitSync" /\ completeLenses[i] \in BadPayloadLenses
            /\ focusingErrors' # focusingErrors) =>
            /\ Len(focusingErrors') = Len(focusingErrors) + 1
            /\ leafletSectionList' = leafletSectionList
            /\ IF i = Len(completeLenses)
               THEN pc' = "returned" /\ epi' = writeLeaflet(epi, leafletSectionList)
               ELSE /\ i' = i + 1 /\ epi' = epi
                    /\ pc' \in {"awaitSync", "awaitWorker"}
                    /\ pc' = "awaitWorker" =>
                         inv'[i'].html
                           = getLeafletHTMLString(leafletSectionList.list).html]_vars

\* a lens whose payload decodes to nothing was folded in after a lens that
\* changed the sections
C16_Witness ==
    /\ pc = "returned"
    /\ completeLenses = <<LValid, LDecodesEmpty>>
    /\ focusingErrors[1] = <<>>
    /\ focusingErrors[2]
         = <<FocusingError("Lens code extraction error: Decoded lens code is empty",
                           "decodes-empty")>>
    /\ leafletSectionList.list # getLeaflet(epi0).list
\* C17: when two calls of applyLenses configured with different leeLogger
\* sinks overlap, every log entry written on behalf of a call is delivered
\* to that call's own sink.
C17_LogsReachOwnSink ==
    \A e \in delivered : e.to = callers[e.call].leeLogger
\* C18: flattening a section list and reconciling the unmodified markup
\* against the same list gives back as many sections as the list has, with
\* the same titles and codes in the same places.
C18_RoundTripKeepsTitlesAndCodes ==
    stage = "reconciled" =>
        /\ Len(output) = Len(input)
        /\ \A j \in 1..Len(output) :
              j <= Len(input) =>
                  output[j].title = input[j].title /\ output[j].code = input[j].code
\* lens transforms that neither add nor remove a marked block
KeepsBlocks(lens) == lens.tr \in {"hl", "same", "mutate"}

\* two section lists have the same length and, place by place, the same
\* title, code and, recursively, child sections
RECURSIVE SameStructure(_, _)
SameStructure(a, b) ==
    /\ Len(a) = Len(b)
    /\ \A j \in 1..Len(a) :
          j <= Len(b) =>
              /\ a[j].title = b[j].title
              /\ a[j].code = b[j].code
              /\ SameStructure(a[j].sub, b[j].sub)

\* C19: with lenses that neither add nor remove marked blocks, every section
\* of the returned document, at every nesting level, has the title, the code
\* and the number of child sections of the input section in its place.
C19_SectionStructurePreserved ==
    (pc = "returned" /\ \A k \in 1..Len(completeLenses) : KeepsBlocks(completeLenses[k]))
        => /\ Len(epi.sec) = Len(epi0.sec)
           /\ \A t \in 1..Len(epi.sec) :
                 t <= Len(epi0.sec) => SameStructure(epi.sec[t].sub, epi0.sec[t].sub)
\* the places of an attachment array that hold inline data, a data URL, a
\* data URL with a base64 segment
WithInline(atts) == {j \in 1..Len(atts) : atts[j].data # None /\ atts[j].data # ""}
WithUrl(atts) == {j \in 1..Len(atts) : atts[j].url.isData}
WithBase64Url(atts) == {j \in 1..Len(atts) : atts[j].url.isData /\ atts[j].url.hasB64}
First(places) == CHOOSE j \in places : \A m \in places : j <= m
ArrayOf(lens) == IF lens.contentKind = "array" THEN lens.atts ELSE <<>>
HasData(lens) == lens.data # None /\ lens.data # ""

PayloadInOrder(lens) ==
    IF WithInline(ArrayOf(lens)) # {}
    THEN lens.atts[First(WithInline(lens.atts))].data
    ELSE IF WithUrl(ArrayOf(lens)) # {} /\ lens.atts[First(WithUrl(lens.atts))].url.hasB64
    THEN lens.atts[First(WithUrl(lens.atts))].url.payload
    ELSE IF HasData(lens) THEN lens.data
    ELSE IF lens.contentKind = "object" /\ lens.odata # None THEN lens.odata
    ELSE None

IdentifierOf(lens) ==
    IF lens.identifier # None /\ lens.identifier # "" THEN lens.identifier
    ELSE IF lens.id # None /\ lens.id # "" THEN lens.id
    ELSE "unknown-lens"

\* C21: the lensName of every FocusingError and the lens reference of every
\* explanation extension carry the lens's identifier: the first non-empty of
\* its declared identifier value and its id, else "unknown-lens".
C21_IdentifierOrIdOrSentinel ==
    /\ \A k \in 1..Len(focusingErrors) :
          \A e \in 1..Len(focusingErrors[k]) :
             focusingErrors[k][e].lensName = IdentifierOf(completeLenses[k])
    /\ pc = "returned" =>
          \A x \in 1..Len(epi.ext) :
             epi.ext[x].url = "other"
               \/ \E k \in 1..Len(completeLenses) :
                     /\ epi.ext[x].lens = "Library/" \o IdentifierOf(completeLenses[k])
                     /\ epi.ext[x].elementClass = IdentifierOf(completeLenses[k])
\* C22: with continueOnError = false no lens after the first failing lens is
\* executed and the reported results end with the failing lens; without
\* that request the call returns with every lens attempted.
C22_EarlyTerminationOnRequest ==
    /\ ~config.continueOnError =>
          \A j \in 1..Len(focusingErrors) :
             focusingErrors[j] # <<>> =>
                 /\ Len(focusingErrors) = j
                 /\ \A k \in Invs : k > j => ~inv[k].created
                 /\ pc = "returned"
    /\ (config.continueOnError /\ pc = "returned") =>
          Len(focusingErrors) = Len(completeLenses)
\* invocation i has resolved with markup that reconciles to no section
ResolvedWithoutSections ==
    /\ pc = "awaitWorker"
    /\ inv[i].promise = "resolved"
    /\ MarkedDivs(inv[i].value.enhancedHtml) = <<>>

\* C23: the step that folds in a lens that succeeded with markup reconciling
\* to an empty section list keeps the prior section list, records an empty
\* error list for the lens, and appends its explanation extension.
C23_EmptyReconciliationKeepsSections ==
    [][(ResolvedWithoutSections /\ focusingErrors' # focusingErrors) =>
        /\ leafletSectionList' = leafletSectionList
        /\ leafletSectionList'.list # <<>>
        /\ focusingErrors' = Append(focusingErrors, <<>>)
        /\ Len(epi'.ext) = Len(epi.ext) + 1
        /\ epi'.ext[Len(epi'.ext)].lens = "Library/" \o completeLenses[i].name
        /\ epi'.ext[Len(epi'.ext)].explanation
             = IF inv[i].value.explanation # "" THEN inv[i].value.explanation
               ELSE defaultExplanation(epi.lang)]_vars

\* a lens that removed every marked div was folded in after a lens that had
\* changed the sections: those sections and both extensions are returned
C23_Witness ==
    /\ pc = "returned"
    /\ completeLenses = <<LValid, LUnmarked>>
    /\ inv[2].promise = "resolved" /\ MarkedDivs(inv[2].value.enhancedHtml) = <<>>
    /\ focusingErrors = <<<<>>, <<>>>>
    /\ leafletSectionList.list # <<>>
    /\ leafletSectionList.list # getLeaflet(epi0).list
    /\ Len(epi.ext) = Len(epi0.ext) + 2
ExplanationDue(own, lang) ==
    IF own # "" THEN own
    ELSE IF lang \in {"en", "es", "pt", "da"} THEN defaultExplanation(lang)
    ELSE "This section was highlighted because it is relevant to your health."

C26_SettledIgnoresMessages ==
    [][\A k \in 1..MaxLenses :
          inv[k].isSettled =>
              /\ inv'[k].isSettled
              /\ inv'[k].promise = inv[k].promise
              /\ inv'[k].value = inv[k].value
              /\ inv'[k].calls = inv[k].calls
              /\ ~(/\ Len(lensLogs') > Len(lensLogs)
                    /\ lensLogs'[Len(lensLogs')].worker = k)]_vars
\* the failure of a deadline that has passed, under the call's configuration
TimedOut ==
    Failure("Lens execution timed out after "
              \o ToString(IF config.hasTimeout THEN config.lensExecutionTimeout
                          ELSE LensExecutionTimeoutDefault)
              \o "ms")

\* the deadline timer of invocation k fires in this step: it was pending, is
\* not any more, and no event of the worker was handled
TimerFires(k) ==
    /\ inv[k].timer /\ ~inv'[k].timer
    /\ inv'[k].posted = inv[k].posted
    /\ inv'[k].errored = inv[k].errored
    /\ inv'[k].exited = inv[k].exited

\* C27: when the deadline timer fires on an unsettled invocation, terminate
\* is requested and the invocation is rejected with the failure that names
\* the configured timeout in milliseconds; an invocation that has settled
\* never turns into a timeout failure afterwards.
C27_DeadlineTerminatesAndFails ==
    [][\A k \in 1..MaxLenses :
          /\ (TimerFires(k) /\ ~inv[k].isSettled) =>
                /\ inv'[k].isSettled /\ inv'[k].terminated
                /\ inv'[k].promise = "rejected"
                /\ inv'[k].value = TimedOut
          /\ (inv[k].isSettled /\ inv'[k].value = TimedOut) =>
                /\ inv[k].value = TimedOut
                /\ inv'[k].promise = inv[k].promise]_vars

\* a lens that never answers ran into the default deadline, and its worker
\* has exited after the terminate request
C27_Witness ==
    /\ ~config.hasTimeout
    /\ completeLenses # <<>> /\ completeLenses[1] = LNever
    /\ inv[1].promise = "rejected" /\ inv[1].value = TimedOut
    /\ inv[1].terminated /\ inv[1].exited /\ ~inv[1].posted
\* C28: when the result message of the worker is handled on an unsettled
\* invocation, the deadline timer is cancelled and terminate is requested;
\* in every state of a settled invocation no deadline timer is pending and
\* the worker has exited, has errored, or has had terminate requested.
C28_SettledStopsTimerAndWorker ==
    /\ [][\A k \in 1..MaxLenses :
             (~inv[k].posted /\ inv'[k].posted /\ ~inv[k].isSettled) =>
                 /\ inv'[k].isSettled
                 /\ ~inv'[k].timer
                 /\ inv'[k].terminated]_vars
    /\ [](\A k \in 1..MaxLenses :
             inv[k].isSettled =>
                 /\ ~inv[k].timer
                 /\ inv[k].exited \/ inv[k].errored \/ inv[k].terminated)

\* a lens has answered before its deadline: the invocation is resolved, the
\* timer is cancelled and the worker, asked to terminate, is still running
C28_Witness ==
    /\ completeLenses # <<>> /\ completeLenses[1] = LValid
    /\ inv[1].posted /\ inv[1].promise = "resolved"
    /\ ~inv[1].timer /\ inv[1].terminated /\ ~inv[1].exited /\ ~inv[1].errored
\* the failures of a worker that crashed: an uncaught exception, an exit
\* with code 1
CrashFailures ==
    {Failure("uncaught exception"), Failure("Worker stopped with exit code 1")}

\* C29: a worker error, or the exit with a non-zero code of a worker that
\* crashes, on an unsettled invocation rejects it with the crash as failure;
\* the resumption after such a rejection records exactly one FocusingError
\* that carries the failure and the lens's name, and goes on to the next
\* lens, or returns after the last one.
C29_CrashRecordedAndContinues ==
    /\ [][\A k \in 1..MaxLenses :
             /\ (~inv[k].errored /\ inv'[k].errored /\ ~inv[k].isSettled) =>
                   /\ inv'[k].promise = "rejected"
                   /\ inv'[k].value = Failure("uncaught exception")
             /\ (~inv[k].exited /\ inv'[k].exited /\ ~inv[k].isSettled
                   /\ completeLenses[k].beh = "crash") =>
                   /\ inv'[k].promise = "rejected"
                   /\ inv'[k].value = Failure("Worker stopped with exit code 1")]_vars
    /\ [][(pc = "awaitWorker" /\ inv[i].promise = "rejected"
            /\ inv[i].value \in CrashFailures
            /\ focusingErrors' # focusingErrors) =>
             /\ focusingErrors'
                  = Append(focusingErrors,
                           <<FocusingError("Error executing lens: " \o inv[i].value.error,
                                           LensNameOf(completeLenses[i]))>>)
             /\ IF i < Len(completeLenses)
                THEN i' = i + 1 /\ pc' \in {"awaitWorker", "awaitSync"}
                ELSE pc' = "returned"]_vars

\* the first lens crashed, the second one was applied, and the call has
\* returned with one error for the first lens and none for the second
C29_Witness ==
    /\ pc = "returned"
    /\ completeLenses = <<LCrash, LValid>>
    /\ inv[1].value \in CrashFailures
    /\ Len(focusingErrors[1]) = 1 /\ focusingErrors[2] = <<>>
    /\ inv[2].promise = "resolved"
\* the invocations of the call whose promise is not settled
Unsettled == {k \in 1..MaxLenses : inv[k].created /\ inv[k].promise = "pending"}

\* C30: the worker of a lens is created in the step that moves the loop to
\* that lens, the loop only moves forward, and at that step every invocation
\* of an earlier lens is settled; a call never has two unsettled invocations.
C30_SequentialDispatch ==
    /\ [][/\ i' >= i
          /\ \A k \in 1..MaxLenses :
                (~inv[k].created /\ inv'[k].created) =>
                    /\ k = i' /\ k > i
                    /\ \A j \in 1..MaxLenses :
                          inv[j].created => (j < k /\ inv[j].isSettled
                                              /\ inv[j].promise # "pending")]_vars
    /\ [](Cardinality(Unsettled) <= 1)
    /\ [](\A k \in 1..MaxLenses : inv[k].created => k <= i /\ k <= Len(completeLenses))

\* the worker of the second lens is running and the invocation of the first
\* lens, which had a worker too, is settled
C30_Witness ==
    /\ pc = "awaitWorker" /\ i = 2
    /\ inv[1].created /\ inv[1].isSettled /\ inv[1].promise # "pending"
    /\ inv[2].created /\ ~inv[2].isSettled
    /\ Unsettled = {2}
\* C31: when the worker of lens k is created right after lens k-1 had one,
\* the markup it is handed is the markup lens k-1 returned if that
\* invocation resolved, and the markup lens k-1 was handed if it was
\* rejected.
C31_MarkupThreadsThrough ==
    [][\A k \in 2..MaxLenses :
          (~inv[k].created /\ inv'[k].created /\ inv[k - 1].created) =>
              inv'[k].html = IF inv[k - 1].promise = "resolved"
                             THEN inv[k - 1].value.enhancedHtml
                             ELSE inv[k - 1].html]_vars
\* C32: the sections of the document change only in the step that returns,
\* when no invocation is pending; before that the document, and the copy of
\* it each worker was handed, have the sections of the input, the enhanced
\* marker and the input's extensions followed by one per lens applied so
\* far, while the markup handed to the worker is the flattening of the
\* current section list.
C32_SectionsWrittenOnceAtReturn ==
    /\ [][epi'.sec # epi.sec =>
             /\ pc # "returned" /\ pc' = "returned"
             /\ \A k \in 1..MaxLenses : inv[k].created => inv[k].promise # "pending"]_vars
    /\ [](pc # "returned" => epi.sec = epi0.sec)
    /\ [](\A k \in 1..MaxLenses :
             inv[k].created =>
                 /\ inv[k].epi.sec = epi0.sec
                 /\ inv[k].epi.cat = "E"
                 /\ Len(inv[k].epi.ext)
                      = Len(epi0.ext)
                          + Cardinality({j \in 1..(k - 1) : focusingErrors[j] = <<>>})
                 /\ SubSeq(inv[k].epi.ext, 1, Len(epi0.ext)) = epi0.ext)
    /\ [](pc = "awaitWorker" =>
             inv[i].html = getLeafletHTMLString(leafletSectionList.list).html)

\* the worker of the second lens holds the input's sections and the first
\* lens's extension, and markup that the first lens has changed
C32_Witness ==
    /\ pc = "awaitWorker" /\ i = 2
    /\ inv[1].promise = "resolved"
    /\ inv[2].html # inv[1].html
    /\ inv[2].epi.sec = epi0.sec
    /\ Len(inv[2].epi.ext) = Len(epi0.ext) + 1
    /\ getLeaflet(epi0) # leafletSectionList
\* the current section list is missing or empty
NoCurrentSections == ~leafletSectionList.found \/ leafletSectionList.list = <<>>

LogHandled(k) == inv'[k].logs # inv[k].logs

InstalledBefore ==
    CHOOSE s \in {callers[c].previousLeeLogger : c \in Calls}
                   \ {LeeLogger(c) : c \in Calls} : TRUE

\* C35: when all calls of applyLenses that brought their own leeLogger have
\* completed, Logger.sink is the sink installed before the first of them
\* started.
C35_SinkRestoredAfterAllCalls ==
    (\A c \in Calls : callers[c].pc = "done") => sink = InstalledBefore
\* the identifiers of the lenses among the first k whose error list is empty,
\* in input order
RECURSIVE AppliedUpTo(_)
AppliedUpTo(k) ==
    IF k = 0 THEN <<>>
    ELSE AppliedUpTo(k - 1)
           \o (IF focusingErrors[k] = <<>>
                THEN <<getLensIdenfier(completeLenses[k])>> ELSE <<>>)

NameAt(k) ==
    IF completeLenses[k].name # None THEN completeLenses[k].name
    ELSE "Invalid Lens Name"

ReturnsFewerSections ==
    /\ pc = "awaitWorker" /\ inv[i].promise = "resolved"
    /\ MarkedDivs(inv[i].value.enhancedHtml) # <<>>
    /\ Len(MarkedDivs(inv[i].value.enhancedHtml)) < Len(leafletSectionList.list)

\* C38: when the markup a lens returned reconciles to a non-empty list with
\* fewer sections than the current one, the resumption takes that list, one
\* section per marked div of the markup, as the current list, records an
\* empty error list for the lens and appends its extension.
C38_ShorterListIsSuccess ==
    [][(ReturnsFewerSections /\ focusingErrors' # focusingErrors) =>
          /\ focusingErrors' = Append(focusingErrors, <<>>)
          /\ leafletSectionList'.found
          /\ Len(leafletSectionList'.list) = Len(MarkedDivs(inv[i].value.enhancedHtml))
          /\ \A n \in 1..Len(leafletSectionList'.list) :
                /\ leafletSectionList'.list[n].div
                     = <<OuterHTML(MarkedDivs(inv[i].value.enhancedHtml)[n])>>
                /\ leafletSectionList'.list[n].title = leafletSectionList.list[n].title
          /\ Len(epi'.ext) = Len(epi.ext) + 1
          /\ pc' = "returned" =>
                getLeaflet(epi').list = leafletSectionList'.list]_vars

\* a call with the one lens that drops a section of a two-section leaflet
\* has returned a document with one section and no error
C38_Witness ==
    /\ pc = "returned"
    /\ epi0 = DGood /\ completeLenses = <<LDrop>>
    /\ Len(getLeaflet(epi0).list) = 2
    /\ Len(getLeaflet(epi).list) = 1
    /\ focusingErrors = <<<<>>>>
\* the place getLeaflet reads from: the first top-level section with an array
\* of child sections, else the first top-level section; 0 when the document
\* has no Composition, no section array or no top-level section
ReadPlace(e) ==
    IF ~HasComposition(e) \/ ~e.hasSec \/ e.sec = <<>> THEN 0
    ELSE IF \E t \in 1..Len(e.sec) : e.sec[t].hasSub
    THEN CHOOSE t \in 1..Len(e.sec) :
            e.sec[t].hasSub /\ \A u \in 1..(t - 1) : ~e.sec[u].hasSub
    ELSE 1

\* C39: writeLeaflet puts the list into the child sections of the place
\* getLeaflet reads from, and leaves every other top-level section and every
\* other field of the document as it was; a document without such a place
\* is returned unchanged; getLeaflet then reads the list that was written,
\* when a list and not null was written.
C39_WritesWhereRead ==
    /\ stage \in {"written", "read"} =>
          IF ReadPlace(input.epi) = 0 THEN output.epi = input.epi
          ELSE /\ output.epi.sec[ReadPlace(input.epi)].sub = input.list.list
               /\ output.epi.sec[ReadPlace(input.epi)].hasSub = input.list.found
               /\ Len(output.epi.sec) = Len(input.epi.sec)
               /\ \A t \in 1..Len(input.epi.sec) :
                     t # ReadPlace(input.epi) => output.epi.sec[t] = input.epi.sec[t]
               /\ [output.epi EXCEPT !.sec = input.epi.sec] = input.epi
               /\ getLeaflet(input.epi).found =>
                     getLeaflet(input.epi).list = input.epi.sec[ReadPlace(input.epi)].sub
    /\ (stage = "read" /\ ReadPlace(input.epi) # 0 /\ input.list.found) =>
          output.list = input.list

\* a list was written into the first of two top-level sections, neither of
\* which had child sections, and read back
C39_Witness ==
    /\ stage = "read"
    /\ Len(input.epi.sec) = 2
    /\ \A t \in 1..2 : ~input.epi.sec[t].hasSub
    /\ input.list = List(<<S2, S1>>)
    /\ output.epi.sec[1].sub = <<S2, S1>>
    /\ output.list = input.list
====
